---- MODULE Spec2Model ----
(***************************************************************************)
(* Kathmandu Shame Map: the report-submission-and-map-refresh workflow.    *)
(*                                                                         *)
(*   ReportForm.svelte   the form: fields, validation, handleSubmit        *)
(*   +page.svelte        the page controller: handleReportSubmit           *)
(*   MapDisplay.svelte   the map: initializeMap, fetchReports,             *)
(*                       updateMarkers, refreshData, cleanup               *)
(*                                                                         *)
(* The browser runs one task at a time.  Every action below is one task:   *)
(* an event handler or the continuation of an await, run up to the next    *)
(* await that really suspends on the network, the module loader or the     *)
(* geolocation service.  A continuation that waits on an already settled   *)
(* promise is a microtask; it runs before the next task and is therefore   *)
(* part of the action that settles the promise.                            *)
(*                                                                         *)
(* Strings are tuples of their pieces: `Error: ${m}` is <<"Error: ", m>>,  *)
(* and null / '' (both falsy in the templates) is the empty tuple.         *)
(***************************************************************************)
EXTENDS Integers, Sequences, FiniteSets, TLC

(***************************************************************************)
(* Bounds of the model.                                                    *)
(***************************************************************************)
MaxSubmits == 2        \* onSubmit invocations in one run
MaxDescLen == 1        \* characters typed into the description
MaxGeoPending == 1     \* geolocation requests in flight at once
MaxExternal == 2       \* rows written to the table by other clients

(***************************************************************************)
(* Values.                                                                 *)
(***************************************************************************)
\* number | null, with NaN kept apart from the numbers
Null == [k |-> "null"]
NaN == [k |-> "nan"]
Num(v) == [k |-> "num", v |-> v]

isNaN(x) == x.k = "nan"
\* JavaScript's < and > on number operands: false when either is NaN
Lt(x, n) == x.k = "num" /\ x.v < n
Gt(x, n) == x.k = "num" /\ x.v > n

NoText == << >>

Min(a, b) == IF a < b THEN a ELSE b

RECURSIVE SeqsUpTo(_, _)
SeqsUpTo(S, n) ==
    IF n = 0 THEN { << >> }
    ELSE LET shorter == SeqsUpTo(S, n - 1)
         IN  shorter \cup { Append(s, c) : s \in shorter, c \in S }

\* String.prototype.trim on a string of characters
RECURSIVE TrimLeft(_)
TrimLeft(s) ==
    IF s # << >> /\ Head(s) = " " THEN TrimLeft(Tail(s)) ELSE s

RECURSIVE TrimRight(_)
TrimRight(s) ==
    IF s # << >> /\ s[Len(s)] = " " THEN TrimRight(SubSeq(s, 1, Len(s) - 1)) ELSE s

\* trim left out
trim_Nothing(s) == s

trim(s) == TrimRight(TrimLeft(s))

(***************************************************************************)
(* What the user and the environment can supply.                           *)
(***************************************************************************)
Chars == {" ", "x"}
Descriptions == SeqsUpTo(Chars, MaxDescLen)
pollutionTypes == {"Trash Dump", "Plastic Burning", "Sewage Leak", "Air Pollution", "Other"}
\* what a number input can hold: nothing, or a number; NaN is kept because
\* the field's type admits it and handleSubmit tests for it
LatInputs == {Null, NaN, Num(-91), Num(-90), Num(90), Num(91)}
LonInputs == {Null, NaN, Num(-181), Num(-180), Num(180), Num(181)}
\* the values of a user who fills the form in and clears it again
PlainDescriptions == { << >>, << "x" >> }
PlainLatitudes == {Null, Num(90)}
PlainLongitudes == {Null, Num(180)}
\* files offered by the file picker: none, an image, something else
NoFile == [k |-> "null"]
ImageFile == [k |-> "file", type |-> "image/png"]
TextFile == [k |-> "file", type |-> "text/plain"]
FileInputs == {NoFile, ImageFile, TextFile}
GeoPositions == { <<27, 85>> }
GeoErrorCodes == {"PERMISSION_DENIED", "POSITION_UNAVAILABLE", "TIMEOUT", "OTHER"}
\* the message of the error a backend call can fail with
UploadMessages == {"Bucket not found"}
InsertMessages == {"new row violates row-level security policy"}
FetchMessages == {"Failed to fetch"}


(***************************************************************************)
(* Texts shown to the user.                                                *)
(***************************************************************************)
RequiredFieldsError == << "All fields marked with * are required." >>
InvalidLocationError == << "Please provide a valid location." >>
InvalidImageError == << "Please select a valid image file." >>
ConfigurationError == << "Configuration error: Cannot connect to backend" >>
ProcessingMessage == << "Processing report..." >>
NotReadyMessage == << "Error: Backend connection not ready. Please refresh" >>
UploadingMessage == << "Uploading image" >>
SavingMessage == << "Saving report details..." >>
SuccessMessage == << "Report submitted successfully!" >>
\* new Error(`Image upload failed: ${uploadError.message}`)
UploadError(m) == << "Image upload failed: ", m >>
\* new Error(`Failed to save report: ${insertError.message}`)
InsertError(m) == << "Failed to save report: ", m >>
MissingCoordinates == << "Latitude or Longitude is missing" >>
\* `Error: ${error.message || 'An unknown error occurred during submission'}`
ErrorMessage(msg) ==
    << "Error: " >> \o (IF msg = NoText
                        THEN << "An unknown error occurred during submission" >>
                        ELSE msg)
\* LoadFailed with the backend's message dropped
LoadFailed_MessageDropped(m) == << "Failed to load reports: " >>
LoadFailed(m) == << "Failed to load reports: ", m >>
InitFailed(m) == << "Map initialization failed: ", m >>

(***************************************************************************)
(* State.                                                                  *)
(***************************************************************************)
VARIABLES
    \* the environment
    config,               \* VITE_SUPABASE_URL and VITE_SUPABASE_ANON_KEY are both set
    db,                   \* the rows of pollution_reports, oldest first
    external,             \* rows written by other clients so far
    \* ReportForm.svelte
    pollutionType, description, latitude, longitude, imageFile,
    isSubmitting, locationStatus, formError,
    geoPending,           \* getCurrentLocation calls waiting for the position
    \* +page.svelte
    pagePc,               \* "start", "mounted" or "destroyed"
    submissionMessage, isProcessing, supabase, mapDisplayComponent,
    subs,                 \* the handleReportSubmit invocations, in order
    timers,               \* pending setTimeout callbacks, oldest first
    \* MapDisplay.svelte
    initPc,               \* initializeMap: "idle", "import", "fetch", "done"
    mapContainer, mapInstance, markersLayer, L,
    isLoading, mapError, reports,
    markers,              \* the markers of the marker layer, in order
    widgets,              \* Leaflet maps created and not yet removed
    fetches,              \* listReports calls in flight
    issued                \* listReports calls issued so far

envVars == << config, db, external >>
formVars == << pollutionType, description, latitude, longitude, imageFile,
               isSubmitting, locationStatus, formError, geoPending >>
pageVars == << pagePc, submissionMessage, isProcessing, supabase,
               mapDisplayComponent, subs, timers >>
mapVars == << initPc, mapContainer, mapInstance, markersLayer, L,
              isLoading, mapError, reports, markers, widgets, fetches, issued >>
vars == << envVars, formVars, pageVars, mapVars >>

Init ==
    /\ config \in BOOLEAN
    /\ db = << >>
    /\ external = 0
    /\ pollutionType = "Trash Dump"
    /\ description = << >>
    /\ latitude = Null
    /\ longitude = Null
    /\ imageFile = NoFile
    /\ isSubmitting = FALSE
    /\ locationStatus = NoText
    /\ formError = NoText
    /\ geoPending = 0
    /\ pagePc = "start"
    /\ submissionMessage = NoText
    /\ isProcessing = FALSE
    /\ supabase = FALSE
    /\ mapDisplayComponent = FALSE
    /\ subs = << >>
    /\ timers = << >>
    /\ initPc = "idle"
    /\ mapContainer = FALSE
    /\ mapInstance = 0
    /\ markersLayer = FALSE
    /\ L = FALSE
    /\ isLoading = TRUE
    /\ mapError = NoText
    /\ reports = << >>
    /\ markers = << >>
    /\ widgets = {}
    /\ fetches = {}
    /\ issued = 0


(***************************************************************************)
(* The backend: the pollution_reports table.                               *)
(***************************************************************************)
PageLimit == 500

Reverse(s) == [i \in 1..Len(s) |-> s[Len(s) + 1 - i]]

\* .select(...).order('created_at', { ascending: false }).limit(500)
\* over the first n rows of the table
listReports(n) ==
    LET newestFirst == Reverse(SubSeq(db, 1, n))
    IN  SubSeq(newestFirst, 1, Min(Len(newestFirst), PageLimit))

\* rows other clients may write; the coordinate columns are nullable
ExternalRows ==
    { [latitude |-> lat, longitude |-> lon, pollution_type |-> "Other",
       description |-> << "y" >>, image_url |-> NoText] :
      <<lat, lon>> \in { <<Num(27), Num(85)>>, <<Null, Num(85)>>, <<Num(27), Null>> } }

\* the backend assigns the id
Stored(table, row) ==
    Append(table, [id |-> Len(table) + 1] @@ row)

ExternalInsert ==
    /\ external < MaxExternal
    /\ \E row \in ExternalRows : db' = Stored(db, row)
    /\ external' = external + 1
    /\ UNCHANGED << config, formVars, pageVars, mapVars >>

(***************************************************************************)
(* MapDisplay.svelte                                                       *)
(***************************************************************************)
BackendConnectionError == << "Backend connection error." >>

\* invalidCoordinates with the latitude tested alone
invalidCoordinates_LatitudeOnly(report) ==
    \/ report.latitude = Null
    \/ isNaN(report.latitude)

\* the test of updateMarkers that skips a report
invalidCoordinates(report) ==
    \/ report.latitude = Null
    \/ report.longitude = Null
    \/ isNaN(report.latitude)
    \/ isNaN(report.longitude)

\* reports.forEach of updateMarkers: one marker per report that is not skipped
RECURSIVE MarkersOf(_)
MarkersOf(rs) ==
    IF rs = << >> THEN << >>
    ELSE LET report == Head(rs)
         IN  (IF invalidCoordinates(report)
              THEN << >>
              ELSE << << report.latitude, report.longitude >> >>)
             \o MarkersOf(Tail(rs))

\* updateMarkers without markersLayer.clearLayers()
updateMarkers_NoClear(rs) ==
    IF mapInstance = 0 \/ ~markersLayer \/ ~L
    THEN markers
    ELSE markers \o MarkersOf(rs)

\* updateMarkers over the report list rs, as it leaves the marker layer
updateMarkers(rs) ==
    IF mapInstance = 0 \/ ~markersLayer \/ ~L
    THEN markers
    ELSE MarkersOf(rs)

\* the select of fetchReports leaves for the backend; n rows are stored
Request(kind, n) ==
    [id |-> issued + 1, kind |-> kind, lo |-> n]

\* refreshData up to the await inside fetchReports; n rows are stored
refreshData(n) ==
    IF mapInstance = 0
    THEN UNCHANGED mapVars
    ELSE IF ~supabase
    THEN /\ mapError' = BackendConnectionError
         /\ isLoading' = FALSE
         /\ UNCHANGED << initPc, mapContainer, mapInstance, markersLayer, L,
                         reports, markers, widgets, fetches, issued >>
    ELSE /\ isLoading' = TRUE
         /\ mapError' = NoText
         /\ fetches' = fetches \cup { Request("refresh", n) }
         /\ issued' = issued + 1
         /\ UNCHANGED << initPc, mapContainer, mapInstance, markersLayer, L,
                         reports, markers, widgets >>

\* onMount of MapDisplay: initializeMap up to the import of leaflet
MountMap ==
    /\ mapContainer' = TRUE
    /\ initPc' = "import"
    /\ UNCHANGED << mapInstance, markersLayer, L, isLoading, mapError,
                    reports, markers, widgets, fetches, issued >>

\* the import of leaflet fails: catch and finally of initializeMap
ImportFailed ==
    /\ initPc = "import"
    /\ mapError' = InitFailed("Failed to fetch dynamically imported module")
    /\ L' = FALSE
    /\ mapInstance' = 0
    /\ markersLayer' = FALSE
    /\ isLoading' = FALSE
    /\ initPc' = "done"
    /\ UNCHANGED << mapContainer, reports, markers, widgets, fetches, issued >>
    /\ UNCHANGED << envVars, formVars, pageVars >>

\* the import of leaflet resolves: initializeMap up to the await in fetchReports
ImportDone ==
    /\ initPc = "import"
    /\ IF ~mapContainer
       THEN \* L.map(null) throws: catch and finally
            /\ mapError' = InitFailed("Map container not found.")
            /\ L' = FALSE
            /\ mapInstance' = 0
            /\ markersLayer' = FALSE
            /\ isLoading' = FALSE
            /\ initPc' = "done"
            /\ UNCHANGED << mapContainer, reports, markers, widgets, fetches, issued >>
       ELSE /\ L' = TRUE
            /\ markersLayer' = TRUE
            /\ mapInstance' = 1
            /\ widgets' = widgets \cup {1}
            /\ markers' = << >>
            /\ IF ~supabase
               THEN /\ mapError' = BackendConnectionError
                    /\ isLoading' = FALSE
                    /\ initPc' = "done"
                    /\ UNCHANGED << fetches, issued >>
               ELSE /\ mapError' = NoText
                    /\ fetches' = fetches \cup { Request("init", Len(db)) }
                    /\ issued' = issued + 1
                    /\ initPc' = "fetch"
                    /\ UNCHANGED isLoading
            /\ UNCHANGED << mapContainer, reports >>
    /\ UNCHANGED << envVars, formVars, pageVars >>

\* the import of leaflet resolves, L.map creates the widget and a Leaflet
\* call of the lines after it (setView, tileLayer, addTo) throws: catch and
\* finally of initializeMap.  The catch drops the references; it does not
\* call remove() on the widget.
ImportDoneThenThrow ==
    /\ initPc = "import"
    /\ mapContainer
    /\ widgets' = widgets \cup {1}
    /\ mapError' = InitFailed("Leaflet error")
    /\ L' = FALSE
    /\ mapInstance' = 0
    /\ markersLayer' = FALSE
    /\ isLoading' = FALSE
    /\ initPc' = "done"
    /\ UNCHANGED << mapContainer, reports, markers, fetches, issued >>
    /\ UNCHANGED << envVars, formVars, pageVars >>

\* what resumes when the promise of fetchReports settles:
\* the finally of initializeMap or the finally of refreshData
AfterFetch(f) ==
    /\ isLoading' = FALSE
    /\ initPc' = IF f.kind = "init" THEN "done" ELSE initPc

\* the select resolves with rows: try branch of fetchReports
FetchDone ==
    \E f \in fetches :
        /\ \E n \in f.lo..Len(db) :
              /\ reports' = listReports(n)
              /\ markers' = updateMarkers(listReports(n))
        /\ fetches' = fetches \ {f}
        /\ AfterFetch(f)
        /\ UNCHANGED << mapContainer, mapInstance, markersLayer, L, mapError,
                        widgets, issued >>
        /\ UNCHANGED << envVars, formVars, pageVars >>

\* the select resolves with an error: catch branch of fetchReports
FetchFailed ==
    \E f \in fetches :
        /\ \E m \in FetchMessages : mapError' = LoadFailed(m)
        /\ reports' = << >>
        /\ markers' = updateMarkers(<< >>)
        /\ fetches' = fetches \ {f}
        /\ AfterFetch(f)
        /\ UNCHANGED << mapContainer, mapInstance, markersLayer, L,
                        widgets, issued >>
        /\ UNCHANGED << envVars, formVars, pageVars >>

\* the cleanup function returned to onMount
Cleanup ==
    /\ mapInstance' = 0
    /\ widgets' = IF mapInstance # 0 THEN widgets \ {mapInstance} ELSE widgets
    /\ markers' = IF mapInstance # 0 THEN << >> ELSE markers
    /\ L' = FALSE
    /\ markersLayer' = FALSE
    /\ mapContainer' = FALSE
    /\ reports' = << >>
    /\ UNCHANGED << initPc, isLoading, mapError, fetches, issued >>


(***************************************************************************)
(* +page.svelte                                                            *)
(***************************************************************************)
TimerDelay == 7000

\* PageMount with the test of the two configuration values left out
PageMount_ConfigNotTested ==
    /\ pagePc = "start"
    /\ pagePc' = "mounted"
    /\ supabase' = TRUE
    /\ mapDisplayComponent' = TRUE
    /\ MountMap
    /\ UNCHANGED << submissionMessage, isProcessing, subs, timers >>
    /\ UNCHANGED << envVars, formVars >>

\* onMount of the page; with a client the template mounts MapDisplay
\* and binds mapDisplayComponent
PageMount ==
    /\ pagePc = "start"
    /\ pagePc' = "mounted"
    /\ IF ~config
       THEN /\ submissionMessage' = ConfigurationError
            /\ UNCHANGED << supabase, mapDisplayComponent, mapVars >>
       ELSE /\ supabase' = TRUE
            /\ mapDisplayComponent' = TRUE
            /\ MountMap
            /\ UNCHANGED submissionMessage
    /\ UNCHANGED << isProcessing, subs, timers >>
    /\ UNCHANGED << envVars, formVars >>

\* the page is left: its components are destroyed, MapDisplay runs its cleanup
PageDestroy ==
    /\ pagePc = "mounted"
    /\ pagePc' = "destroyed"
    /\ IF mapDisplayComponent
       THEN Cleanup /\ mapDisplayComponent' = FALSE
       ELSE UNCHANGED << mapVars, mapDisplayComponent >>
    /\ UNCHANGED << submissionMessage, isProcessing, supabase, subs, timers >>
    /\ UNCHANGED << envVars, formVars >>

\* the record of one handleReportSubmit invocation
Invocation(reportDetails, pc) ==
    [ reportDetails |-> reportDetails,
      pc |-> pc,              \* "upload", "insert" or "done"
      uploads |-> 0,          \* upload calls issued
      upload |-> "none",      \* "none", "sent", "ok" or "error"
      inserts |-> 0,          \* insert calls issued
      insert |-> "none",      \* "none", "sent", "ok" or "error"
      row |-> 0,              \* id of the row the insert stored
      refresh |-> 0,          \* refreshData calls made
      outcome |-> "none",     \* "notready", "returned" or "caught"
      error |-> "" ]          \* the message of the backend's error

Outstanding == { i \in 1..Len(subs) : subs[i].pc # "done" }

\* Finally without the finally of handleSubmit
Finally_FormNotReleased(i) ==
    /\ isProcessing' = FALSE
    /\ timers' = Append(timers, i)
    /\ isSubmitting' = isSubmitting

\* the finally of handleReportSubmit, and then the finally of the
\* handleSubmit that awaited it
Finally(i) ==
    /\ isProcessing' = FALSE
    /\ timers' = Append(timers, i)
    /\ isSubmitting' = FALSE

\* the setTimeout callback
TimerFire ==
    /\ timers # << >>
    /\ submissionMessage' = NoText
    /\ timers' = Tail(timers)
    /\ UNCHANGED << pagePc, isProcessing, supabase, mapDisplayComponent, subs >>
    /\ UNCHANGED << envVars, formVars, mapVars >>

\* lines 97-101: the refresh request to the map; n rows are stored
RequestRefresh(n) ==
    IF mapDisplayComponent THEN refreshData(n) ELSE UNCHANGED mapVars

Refreshes == IF mapDisplayComponent THEN 1 ELSE 0

\* handleReportSubmit with the insert outside the test for an image file
handleReportSubmit_InsertsWithoutImage(reportDetails, i) ==
    IF ~supabase
    THEN /\ submissionMessage' = NotReadyMessage
         /\ isProcessing' = FALSE
         /\ isSubmitting' = FALSE
         /\ subs' = Append(subs, [Invocation(reportDetails, "done")
                                    EXCEPT !.outcome = "notready"])
         /\ UNCHANGED << timers, mapVars >>
    ELSE /\ submissionMessage' =
              IF reportDetails.imageFile # NoFile THEN UploadingMessage ELSE SavingMessage
         /\ isProcessing' = TRUE
         /\ isSubmitting' = TRUE
         /\ subs' = Append(subs,
              IF reportDetails.imageFile # NoFile
              THEN [Invocation(reportDetails, "upload")
                      EXCEPT !.uploads = 1, !.upload = "sent"]
              ELSE [Invocation(reportDetails, "insert")
                      EXCEPT !.inserts = 1, !.insert = "sent"])
         /\ UNCHANGED << timers, mapVars >>

\* handleReportSubmit from its call up to its first await or its return,
\* as invocation number i
handleReportSubmit(reportDetails, i) ==
    IF ~supabase
    THEN /\ submissionMessage' = NotReadyMessage
         /\ isProcessing' = FALSE
         /\ isSubmitting' = FALSE
         /\ subs' = Append(subs, [Invocation(reportDetails, "done")
                                    EXCEPT !.outcome = "notready"])
         /\ UNCHANGED << timers, mapVars >>
    ELSE IF reportDetails.imageFile # NoFile
    THEN /\ submissionMessage' = UploadingMessage
         /\ isProcessing' = TRUE
         /\ isSubmitting' = TRUE
         /\ subs' = Append(subs, [Invocation(reportDetails, "upload")
                                    EXCEPT !.uploads = 1, !.upload = "sent"])
         /\ UNCHANGED << timers, mapVars >>
    ELSE /\ submissionMessage' = ProcessingMessage
         /\ RequestRefresh(Len(db))
         /\ subs' = Append(subs, [Invocation(reportDetails, "done")
                                    EXCEPT !.refresh = Refreshes,
                                           !.outcome = "returned"])
         /\ Finally(i)

\* Caught with the error's message dropped
Caught_WithoutMessage(i, msg) ==
    /\ submissionMessage' = ErrorMessage(NoText)
    /\ Finally(i)
    /\ UNCHANGED mapVars

\* the catch of handleReportSubmit for the error msg, then its finally
Caught(i, msg) ==
    /\ submissionMessage' = ErrorMessage(msg)
    /\ Finally(i)
    /\ UNCHANGED mapVars

\* UploadFails with uploadError not tested: the insert is issued all the same
UploadFails_ErrorIgnored(i) ==
    /\ subs[i].pc = "upload"
    /\ \E m \in UploadMessages :
          subs' = [subs EXCEPT ![i].pc = "insert", ![i].upload = "error",
                               ![i].error = m,
                               ![i].inserts = @ + 1, ![i].insert = "sent"]
    /\ submissionMessage' = SavingMessage
    /\ UNCHANGED << isProcessing, isSubmitting, timers, mapVars >>
    /\ UNCHANGED << pagePc, supabase, mapDisplayComponent >>
    /\ UNCHANGED << envVars, pollutionType, description, latitude, longitude,
                    imageFile, locationStatus, formError, geoPending >>

\* the upload resolves with an error
UploadFails(i) ==
    /\ subs[i].pc = "upload"
    /\ \E m \in UploadMessages :
          /\ Caught(i, UploadError(m))
          /\ subs' = [subs EXCEPT ![i].pc = "done", ![i].upload = "error",
                                  ![i].outcome = "caught", ![i].error = m]
    /\ UNCHANGED << pagePc, supabase, mapDisplayComponent >>
    /\ UNCHANGED << envVars, pollutionType, description, latitude, longitude,
                    imageFile, locationStatus, formError, geoPending >>


\* `public/${Date.now()}_${randomSuffix}.${fileExt}`: one path per invocation
filePath(i) == << "public/", i >>

\* getPublicUrl of the storage client: computed from the path, without a request
getPublicUrl(path) == << "https://storage/object/public/pollution-images/" >> \o path

\* lines 61-69: the URL, or null when the client returned none
uploadedImageUrl(i) ==
    LET publicUrl == getPublicUrl(filePath(i))
    IN  IF publicUrl = NoText THEN NoText ELSE publicUrl

reportToInsert(reportDetails, imageUrl) ==
    [ latitude |-> reportDetails.latitude,
      longitude |-> reportDetails.longitude,
      pollution_type |-> reportDetails.pollutionType,
      description |-> reportDetails.description,
      image_url |-> imageUrl ]

\* the upload resolves without an error: up to the await of the insert
UploadSucceeds(i) ==
    /\ subs[i].pc = "upload"
    /\ IF subs[i].reportDetails.latitude = Null \/ subs[i].reportDetails.longitude = Null
       THEN /\ Caught(i, MissingCoordinates)
            /\ subs' = [subs EXCEPT ![i].pc = "done", ![i].upload = "ok",
                                    ![i].outcome = "caught"]
       ELSE /\ submissionMessage' = SavingMessage
            /\ subs' = [subs EXCEPT ![i].pc = "insert", ![i].upload = "ok",
                                    ![i].inserts = @ + 1, ![i].insert = "sent"]
            /\ UNCHANGED << isProcessing, isSubmitting, timers, mapVars >>
    /\ UNCHANGED << pagePc, supabase, mapDisplayComponent >>
    /\ UNCHANGED << envVars, pollutionType, description, latitude, longitude,
                    imageFile, locationStatus, formError, geoPending >>


\* the insert resolves with an error
InsertFails(i) ==
    /\ subs[i].pc = "insert"
    /\ \E m \in InsertMessages :
          /\ Caught(i, InsertError(m))
          /\ subs' = [subs EXCEPT ![i].pc = "done", ![i].insert = "error",
                                  ![i].outcome = "caught", ![i].error = m]
    /\ UNCHANGED << pagePc, supabase, mapDisplayComponent >>
    /\ UNCHANGED << envVars, pollutionType, description, latitude, longitude,
                    imageFile, locationStatus, formError, geoPending >>

\* the insert resolves without an error: the row is stored, the map is
\* asked to refresh, the function returns
InsertSucceeds(i) ==
    /\ subs[i].pc = "insert"
    /\ db' = Stored(db, reportToInsert(subs[i].reportDetails, uploadedImageUrl(i)))
    /\ submissionMessage' = SuccessMessage
    /\ RequestRefresh(Len(db'))
    /\ subs' = [subs EXCEPT ![i].pc = "done", ![i].insert = "ok",
                            ![i].row = Len(db'),
                            ![i].refresh = @ + Refreshes,
                            ![i].outcome = "returned"]
    /\ Finally(i)
    /\ UNCHANGED << pagePc, supabase, mapDisplayComponent >>
    /\ UNCHANGED << config, external, pollutionType, description,
                    latitude, longitude, imageFile, locationStatus, formError,
                    geoPending >>

(***************************************************************************)
(* ReportForm.svelte                                                       *)
(***************************************************************************)
\* Enabled with the disabled attributes left out
Enabled_NeverDisabled == pagePc = "mounted"

\* the inputs, the location button and the submit button are disabled
\* while isSubmitting; a destroyed form takes no input
Enabled == pagePc = "mounted" /\ ~isSubmitting

SetPollutionType(types) ==
    /\ Enabled
    /\ \E t \in types : pollutionType' = t
    /\ UNCHANGED << description, latitude, longitude, imageFile, isSubmitting,
                    locationStatus, formError, geoPending >>
    /\ UNCHANGED << envVars, pageVars, mapVars >>

SetDescription(texts) ==
    /\ Enabled
    /\ \E d \in texts : description' = d
    /\ UNCHANGED << pollutionType, latitude, longitude, imageFile, isSubmitting,
                    locationStatus, formError, geoPending >>
    /\ UNCHANGED << envVars, pageVars, mapVars >>

SetLatitude(values) ==
    /\ Enabled
    /\ \E v \in values : latitude' = v
    /\ UNCHANGED << pollutionType, description, longitude, imageFile, isSubmitting,
                    locationStatus, formError, geoPending >>
    /\ UNCHANGED << envVars, pageVars, mapVars >>

SetLongitude(values) ==
    /\ Enabled
    /\ \E v \in values : longitude' = v
    /\ UNCHANGED << pollutionType, description, latitude, imageFile, isSubmitting,
                    locationStatus, formError, geoPending >>
    /\ UNCHANGED << envVars, pageVars, mapVars >>

\* IsImage with every media type accepted
IsImage_AnyType(file) == TRUE

\* file.type.startsWith('image/')
IsImage(file) == file.type \in {"image/png"}

handleFileSelect ==
    /\ Enabled
    /\ \E file \in FileInputs :
          IF file # NoFile /\ IsImage(file)
          THEN imageFile' = file /\ formError' = NoText
          ELSE formError' = InvalidImageError /\ imageFile' = NoFile
    /\ UNCHANGED << pollutionType, description, latitude, longitude, isSubmitting,
                    locationStatus, geoPending >>
    /\ UNCHANGED << envVars, pageVars, mapVars >>


GettingLocation == << "Getting location..." >>
GeolocationUnsupported == << "Geolocation is not supported by your browser." >>
\* `Location: ${latitude.toFixed(5)}, ${longitude.toFixed(5)}`
LocationText(lat, lon) == << "Location: ", lat, ", ", lon >>

\* the switch over error.code
LocationErrorText(code) ==
    CASE code = "PERMISSION_DENIED" -> << "Permission denied. Please enable location access." >>
      [] code = "POSITION_UNAVAILABLE" -> << "Location unavailable." >>
      [] code = "TIMEOUT" -> << "Location request timed out." >>
      [] OTHER -> << "Failed to get location." >>

\* getCurrentLocation up to the await of the position; whether the browser
\* offers navigator.geolocation is read at each call
getCurrentLocation ==
    /\ Enabled
    /\ formError' = NoText
    /\ \E supported \in BOOLEAN :
          IF ~supported
          THEN /\ locationStatus' = GeolocationUnsupported
               /\ UNCHANGED geoPending
          ELSE /\ geoPending < MaxGeoPending
               /\ locationStatus' = GettingLocation
               /\ geoPending' = geoPending + 1
    /\ UNCHANGED << pollutionType, description, latitude, longitude, imageFile,
                    isSubmitting >>
    /\ UNCHANGED << envVars, pageVars, mapVars >>

\* the position arrives
LocationResolved ==
    /\ geoPending > 0
    /\ geoPending' = geoPending - 1
    /\ \E position \in GeoPositions :
          /\ latitude' = Num(position[1])
          /\ longitude' = Num(position[2])
          /\ locationStatus' = LocationText(position[1], position[2])
    /\ UNCHANGED << pollutionType, description, imageFile, isSubmitting, formError >>
    /\ UNCHANGED << envVars, pageVars, mapVars >>

\* the position request fails: the catch of getCurrentLocation
LocationRejected ==
    /\ geoPending > 0
    /\ geoPending' = geoPending - 1
    /\ \E code \in GeoErrorCodes : locationStatus' = LocationErrorText(code)
    /\ latitude' = Null
    /\ longitude' = Null
    /\ UNCHANGED << pollutionType, description, imageFile, isSubmitting, formError >>
    /\ UNCHANGED << envVars, pageVars, mapVars >>

\* the first test of handleSubmit
MissingRequired ==
    pollutionType = "" \/ trim(description) = << >>

\* InvalidLocation without the upper limits
InvalidLocation_NoUpperLimit ==
    \/ latitude = Null
    \/ longitude = Null
    \/ isNaN(latitude)
    \/ isNaN(longitude)
    \/ Lt(latitude, -90)
    \/ Lt(longitude, -180)

\* the second test of handleSubmit
InvalidLocation ==
    \/ latitude = Null
    \/ longitude = Null
    \/ isNaN(latitude)
    \/ isNaN(longitude)
    \/ Lt(latitude, -90)
    \/ Gt(latitude, 90)
    \/ Lt(longitude, -180)
    \/ Gt(longitude, 180)

reportData ==
    [ pollutionType |-> pollutionType,
      description |-> trim(description),
      latitude |-> latitude,
      longitude |-> longitude,
      imageFile |-> imageFile ]

\* the submit event of the form: handleSubmit, and when the form is valid
\* the call of onSubmit up to its first await or its return.
\* isSubmitting is left true exactly when onSubmit is still awaited.
handleSubmit ==
    /\ Enabled
    /\ IF MissingRequired
       THEN /\ formError' = RequiredFieldsError
            /\ UNCHANGED << isSubmitting, locationStatus, pageVars, mapVars >>
       ELSE IF InvalidLocation
       THEN /\ formError' = InvalidLocationError
            /\ UNCHANGED << isSubmitting, locationStatus, pageVars, mapVars >>
       ELSE /\ formError' = NoText
            /\ locationStatus' = NoText
            /\ handleReportSubmit(reportData, Len(subs) + 1)
            /\ UNCHANGED << pagePc, supabase, mapDisplayComponent >>
    /\ UNCHANGED << pollutionType, description, latitude, longitude, imageFile,
                    geoPending >>
    /\ UNCHANGED envVars

(***************************************************************************)
(* The system.                                                             *)
(***************************************************************************)
\* what the backend, the module loader, the timer and the page's lifecycle do
Responses ==
    \/ PageMount
    \/ PageDestroy
    \/ \E i \in 1..Len(subs) : UploadFails(i)
    \/ \E i \in 1..Len(subs) : UploadSucceeds(i)
    \/ \E i \in 1..Len(subs) : InsertFails(i)
    \/ \E i \in 1..Len(subs) : InsertSucceeds(i)
    \/ TimerFire
    \/ ImportFailed
    \/ ImportDone
    \/ FetchDone
    \/ FetchFailed

\* the submit event, for as long as the run may invoke onSubmit again
Submit == Len(subs) < MaxSubmits /\ handleSubmit

\* The submission pipeline: a user who fills the form in by hand, attaches
\* or removes a file and submits, while nobody else writes to the table.
\* The location button (getCurrentLocation, LocationResolved,
\* LocationRejected), the category select and the writes of other clients
\* (ExternalInsert) are not events of this specification.
Next ==
    \/ SetDescription(PlainDescriptions)
    \/ SetLatitude(PlainLatitudes)
    \/ SetLongitude(PlainLongitudes)
    \/ handleFileSelect
    \/ Submit
    \/ Responses

Spec == Init /\ [][Next]_vars

\* The form's validation, over every content the fields can have: the form
\* as the user has filled it in before the first submit event.  The fields
\* are drawn here instead of being typed one by one; a press of the submit
\* button reads them and nothing else of the form.
InitForm ==
    /\ config \in BOOLEAN
    /\ db = << >>
    /\ external = 0
    /\ pollutionType = "Trash Dump"
    /\ description \in Descriptions
    /\ latitude \in LatInputs
    /\ longitude \in LonInputs
    /\ imageFile \in {NoFile, ImageFile}
    /\ isSubmitting = FALSE
    /\ locationStatus = NoText
    /\ formError = NoText
    /\ geoPending = 0
    /\ pagePc = "start"
    /\ submissionMessage = NoText
    /\ isProcessing = FALSE
    /\ supabase = FALSE
    /\ mapDisplayComponent = FALSE
    /\ subs = << >>
    /\ timers = << >>
    /\ initPc = "idle"
    /\ mapContainer = FALSE
    /\ mapInstance = 0
    /\ markersLayer = FALSE
    /\ L = FALSE
    /\ isLoading = TRUE
    /\ mapError = NoText
    /\ reports = << >>
    /\ markers = << >>
    /\ widgets = {}
    /\ fetches = {}
    /\ issued = 0

NextForm ==
    \/ Submit
    \/ Responses

SpecForm == InitForm /\ [][NextForm]_vars

\* The map: a user who has filled the form in without a photo and submits
\* it, so that the page asks the map to refresh, while other clients write
\* rows to the table, among them rows without a latitude or a longitude.
\* Without a photo no upload and no insert is issued, so their responses
\* are not events of this specification; nor is the page's timer, which
\* writes submissionMessage and nothing the map reads.
InitMap ==
    /\ config = TRUE
    /\ db = << >>
    /\ external = 0
    /\ pollutionType = "Trash Dump"
    /\ description = << "x" >>
    /\ latitude = Num(90)
    /\ longitude = Num(180)
    /\ imageFile = NoFile
    /\ isSubmitting = FALSE
    /\ locationStatus = NoText
    /\ formError = NoText
    /\ geoPending = 0
    /\ pagePc = "start"
    /\ submissionMessage = NoText
    /\ isProcessing = FALSE
    /\ supabase = FALSE
    /\ mapDisplayComponent = FALSE
    /\ subs = << >>
    /\ timers = << >>
    /\ initPc = "idle"
    /\ mapContainer = FALSE
    /\ mapInstance = 0
    /\ markersLayer = FALSE
    /\ L = FALSE
    /\ isLoading = TRUE
    /\ mapError = NoText
    /\ reports = << >>
    /\ markers = << >>
    /\ widgets = {}
    /\ fetches = {}
    /\ issued = 0

NextMap ==
    \/ PageMount
    \/ PageDestroy
    \/ Submit
    \/ ExternalInsert
    \/ ImportFailed
    \/ ImportDone
    \/ ImportDoneThenThrow
    \/ FetchDone
    \/ FetchFailed

SpecMap == InitMap /\ [][NextMap]_vars

\* The location button: a user who has typed a description, attached a
\* photo and perhaps typed coordinates, and who presses the location button
\* and the submit button in any order while location requests and backend
\* calls are answered.
InitLocation ==
    /\ config = TRUE
    /\ db = << >>
    /\ external = 0
    /\ pollutionType = "Trash Dump"
    /\ description = << "x" >>
    /\ latitude \in PlainLatitudes
    /\ longitude \in PlainLongitudes
    /\ imageFile = ImageFile
    /\ isSubmitting = FALSE
    /\ locationStatus = NoText
    /\ formError = NoText
    /\ geoPending = 0
    /\ pagePc = "start"
    /\ submissionMessage = NoText
    /\ isProcessing = FALSE
    /\ supabase = FALSE
    /\ mapDisplayComponent = FALSE
    /\ subs = << >>
    /\ timers = << >>
    /\ initPc = "idle"
    /\ mapContainer = FALSE
    /\ mapInstance = 0
    /\ markersLayer = FALSE
    /\ L = FALSE
    /\ isLoading = TRUE
    /\ mapError = NoText
    /\ reports = << >>
    /\ markers = << >>
    /\ widgets = {}
    /\ fetches = {}
    /\ issued = 0

NextLocation ==
    \/ getCurrentLocation
    \/ LocationResolved
    \/ LocationRejected
    \/ Submit
    \/ Responses

SpecLocation == InitLocation /\ [][NextLocation]_vars

\* every upload and every insert is eventually answered, with or without
\* an error
BackendResponds ==
    /\ WF_vars(\E i \in 1..Len(subs) : UploadFails(i) \/ UploadSucceeds(i))
    /\ WF_vars(\E i \in 1..Len(subs) : InsertFails(i) \/ InsertSucceeds(i))

\* the form as filled in, submitted against a backend that answers
SpecFormLive == InitForm /\ [][NextForm]_vars /\ BackendResponds

(***************************************************************************)
(* Properties of the submission pipeline.                                  *)
(***************************************************************************)
Invocations == 1..Len(subs)
HasImage(i) == subs[i].reportDetails.imageFile # NoFile
RefreshFetches == { f \in fetches : f.kind = "refresh" }

\* C1: at most one onSubmit invocation is outstanding, and isSubmitting is
\* true whenever one is (from its call until it has returned or thrown).
C1_OneSubmissionInFlight ==
    /\ Cardinality(Outstanding) <= 1
    /\ Outstanding # {} => isSubmitting

\* the second invocation is waiting for its upload
C1_Witness ==
    /\ Len(subs) = 2
    /\ subs[1].pc = "done"
    /\ subs[2].pc = "upload"
    /\ isSubmitting

\* C2: an invocation's insert is issued only after its upload has completed,
\* and never after an upload that completed with an error.
C2_InsertOnlyAfterUpload ==
    \A i \in Invocations :
        /\ subs[i].upload = "sent" => subs[i].insert = "none"
        /\ subs[i].insert # "none" => subs[i].upload = "ok"
        /\ subs[i].upload = "error" => subs[i].insert = "none" /\ subs[i].inserts = 0

\* one invocation's upload failed, another's insert is in flight
C2_Witness ==
    \E i, j \in Invocations :
        /\ subs[i].upload = "error"
        /\ subs[j].upload = "ok" /\ subs[j].insert = "sent"

\* C3 as claimed: every refreshData call of the page follows a successful
\* insert of the same submission, and no insert is in flight while the
\* listReports call of a refresh is.
C3_RefreshOnlyAfterInsert ==
    /\ \A i \in Invocations : subs[i].refresh > 0 => subs[i].insert = "ok"
    /\ RefreshFetches # {} => \A i \in Invocations : subs[i].insert # "sent"

\* C4 as claimed: at most one listReports call started by refreshData is in flight.
C4_RefreshesNeverOverlap ==
    Cardinality(RefreshFetches) <= 1

\* what C5 says of every state: a failed upload is followed by no insert and
\* no refresh, a failed insert by no refresh, and no call is issued twice
C5_Aborted ==
    \A i \in Invocations :
        /\ subs[i].uploads <= 1
        /\ subs[i].inserts <= 1
        /\ subs[i].upload = "error" =>
              /\ subs[i].pc = "done"
              /\ subs[i].insert = "none"
              /\ subs[i].refresh = 0
        /\ subs[i].insert = "error" =>
              /\ subs[i].pc = "done"
              /\ subs[i].refresh = 0

\* what C5 says of the step in which a call fails: the status message
\* becomes the error text with the backend's message in it
C5_Surfaced ==
    \A i \in Invocations :
        /\ (subs[i].upload = "sent" /\ subs'[i].upload = "error") =>
              submissionMessage' = << "Error: ", "Image upload failed: ", subs'[i].error >>
        /\ (subs[i].insert = "sent" /\ subs'[i].insert = "error") =>
              submissionMessage' = << "Error: ", "Failed to save report: ", subs'[i].error >>

\* C5: a failed upload or insert aborts the rest of the submission, is not
\* issued again, and is shown as an error message carrying the failure's message.
C5_FailureAbortsAndIsShown ==
    []C5_Aborted /\ [][C5_Surfaced]_vars

\* an upload of one submission and the insert of another have failed, and the
\* insert's failure is on display
C5_Witness ==
    \E i, j \in Invocations :
        /\ subs[i].upload = "error"
        /\ subs[j].insert = "error"
        /\ submissionMessage = << "Error: ", "Failed to save report: ", subs[j].error >>

C9_SubmittedIsStored ==
    \A i \in Invocations :
        subs[i].outcome = "returned" =>
            /\ subs[i].row \in 1..Len(db)
            /\ db[subs[i].row].latitude = subs[i].reportDetails.latitude
            /\ db[subs[i].row].longitude = subs[i].reportDetails.longitude
            /\ db[subs[i].row].description = subs[i].reportDetails.description

\* C10 as claimed, in the form a finite run refutes: once no invocation is
\* outstanding, a status message left by handleReportSubmit has a timer
\* pending that will clear it.
C10_MessageHasTimer ==
    (Len(subs) > 0 /\ Outstanding = {} /\ submissionMessage # NoText) => timers # << >>


\* C17: without the configuration values no client is created, the map is
\* never mounted, no upload, insert or list call is ever issued and the table
\* is never written; the configuration error is shown from the mount on, and
\* every submission ends at once with the not-ready error as status.
C17_NoConfigNoBackend ==
    ~config =>
        /\ ~supabase
        /\ ~mapDisplayComponent
        /\ initPc = "idle" /\ mapInstance = 0 /\ widgets = {}
        /\ fetches = {} /\ issued = 0
        /\ db = << >>
        /\ \A i \in Invocations :
              /\ subs[i].uploads = 0 /\ subs[i].inserts = 0 /\ subs[i].refresh = 0
              /\ subs[i].pc = "done" /\ subs[i].outcome = "notready"
        /\ (pagePc # "start" /\ subs = << >>) => submissionMessage = ConfigurationError
        /\ subs # << >> =>
              /\ submissionMessage = NotReadyMessage
              /\ ~isProcessing /\ ~isSubmitting

\* without configuration, two valid reports have been submitted, the second
\* with a photo
C17_Witness ==
    /\ ~config
    /\ pagePc = "mounted"
    /\ Len(subs) = 2
    /\ subs[2].reportDetails.imageFile = ImageFile
    /\ submissionMessage = NotReadyMessage

\* C18 as claimed: while a listReports call is in flight isLoading is true,
\* and while an upload or insert is in flight isSubmitting and isProcessing
\* are true.
C18_BusyWhileCallInFlight ==
    /\ fetches # {} => isLoading
    /\ \A i \in Invocations :
          (subs[i].upload = "sent" \/ subs[i].insert = "sent")
              => isSubmitting /\ isProcessing

\* C20: with a backend that answers, a form that is submitting is eventually
\* idle again and a page that is processing eventually is not; and the form
\* is idle whenever no onSubmit invocation is outstanding.
C20_SubmitTerminates ==
    /\ isSubmitting ~> ~isSubmitting
    /\ isProcessing ~> ~isProcessing
    /\ [](Outstanding = {} => ~isSubmitting /\ ~isProcessing)

\* one submission has ended in the catch after a failed insert, another has
\* returned after a successful one, and the form is idle
C20_Witness ==
    /\ Len(subs) = 2
    /\ \E i, j \in Invocations :
          /\ subs[i].insert = "error" /\ subs[i].outcome = "caught"
          /\ subs[j].insert = "ok" /\ subs[j].outcome = "returned"
    /\ Outstanding = {}
    /\ ~isSubmitting /\ ~isProcessing

(***************************************************************************)
(* Properties of the form's validation.                                    *)
(***************************************************************************)
\* the description is empty or holds white space only
Blank == \A k \in 1..Len(description) : description[k] = " "

\* a number within [lo, hi]
Within(x, lo, hi) == x.k = "num" /\ x.v >= lo /\ x.v <= hi

\* a coordinate is absent, not a number or out of range
BadLocation == ~Within(latitude, -90, 90) \/ ~Within(longitude, -180, 180)

\* no submission has started and no backend call was issued for one
NothingSubmitted ==
    /\ subs = << >>
    /\ ~isSubmitting
    /\ ~isProcessing
    /\ db = << >>
    /\ RefreshFetches = {}

C7_Rejection == IF Blank THEN RequiredFieldsError ELSE InvalidLocationError

Initialized == mapInstance # 0 /\ markersLayer /\ L

\* both coordinates of the report are numbers
Placeable(report) == report.latitude.k = "num" /\ report.longitude.k = "num"

\* the reports held by the component that can be placed, in their order
PlaceableReports == SelectSeq(reports, Placeable)

\* C11: on an initialized map the marker layer holds exactly one marker for
\* each held report whose latitude and longitude are both numbers, at that
\* report's coordinates, and none for any other report; the markers are
\* those of the list with the skipped reports left out.
C11_MarkersAreValidReports ==
    Initialized =>
        /\ Len(markers) = Len(PlaceableReports)
        /\ \A k \in 1..Len(PlaceableReports) :
              markers[k] = << PlaceableReports[k].latitude, PlaceableReports[k].longitude >>
        /\ markers = MarkersOf(PlaceableReports)

\* a fetched list of a report without a latitude, one without a longitude
\* and, between or after them, none or one with both is on an initialized map
C11_Witness ==
    /\ Initialized
    /\ Len(reports) = 2
    /\ Len(markers) = 1
    /\ \E k \in 1..2 : reports[k].latitude = Null \/ reports[k].longitude = Null

\* a listReports call issued by refreshData is answered in this step
RefreshAnswered == \E f \in fetches : f.kind = "refresh" /\ f \notin fetches'

\* C12: a refresh that brings the list the map already holds leaves the
\* markers as they were, same count and same positions, and the marker layer
\* never holds more markers than there are reports: markers are replaced,
\* not accumulated.
C12_RefreshIsIdempotent ==
    /\ [][(RefreshAnswered /\ reports' = reports) => markers' = markers]_vars
    /\ [](Initialized => Len(markers) <= Len(reports))

\* two refreshes have been answered, the second with the table as it is,
\* and the map shows markers
C12_Witness ==
    /\ Len(subs) = 2
    /\ subs[1].refresh = 1 /\ subs[2].refresh = 1
    /\ issued = 3 /\ fetches = {}
    /\ Initialized
    /\ mapError = NoText
    /\ reports = listReports(Len(db))
    /\ markers # << >>

\* the page calls refreshData in this step
RefreshCalled ==
    \E i \in 1..Len(subs') :
        subs'[i].refresh > (IF i <= Len(subs) THEN subs[i].refresh ELSE 0)

\* C13 as claimed: a refreshData call made before initializeMap has completed
\* issues no listReports call and changes neither markers, reports,
\* isLoading nor mapError.
C13_RefreshBeforeInitIsNoOp ==
    [][(RefreshCalled /\ initPc # "done")
          => UNCHANGED << fetches, issued, markers, reports, isLoading, mapError >>]_vars

\* C14 as claimed: once the teardown of MapDisplay has run the component
\* holds no map instance, no marker layer, no Leaflet reference and an empty
\* report list, and the map widget has been removed.
C14_TornDownStaysEmpty ==
    pagePc = "destroyed" =>
        /\ mapInstance = 0
        /\ ~markersLayer
        /\ ~L
        /\ reports = << >>
        /\ widgets = {}

(***************************************************************************)
(* Properties of the form's file and location fields.                      *)
(***************************************************************************)
\* no file, or a file of an image media type
AbsentOrImage(file) == file = NoFile \/ file.type = "image/png"

\* C15: the held file is always absent or an image, and so is the file of
\* every report handed to onSubmit; a file selection either stores an image
\* and clears the error or stores nothing and shows the invalid-image error;
\* and while that error is shown the form is idle and takes a submit.
C15_OnlyImagesHeld ==
    /\ [](AbsentOrImage(imageFile))
    /\ [](\A i \in Invocations : AbsentOrImage(subs[i].reportDetails.imageFile))
    /\ [][handleFileSelect =>
             \/ imageFile' # NoFile /\ formError' = NoText
             \/ imageFile' = NoFile /\ formError' = InvalidImageError]_vars
    /\ []((formError = InvalidImageError /\ pagePc = "mounted")
             => ~isSubmitting /\ ENABLED handleSubmit)

\* after a report with an image was uploaded, a selection has been rejected:
\* the error is shown and no file is held
C15_Witness ==
    /\ Len(subs) = 1
    /\ subs[1].uploads = 1
    /\ subs[1].pc = "done"
    /\ formError = InvalidImageError
    /\ imageFile = NoFile

\* the texts locationStatus shows for a failed acquisition, one per kind
LocationFailureTexts ==
    { LocationErrorText(code) : code \in GeoErrorCodes } \cup { GeolocationUnsupported }

\* C16 as claimed: when a location acquisition fails, with whatever kind, the
\* status shows the kind's message and latitude and longitude are both
\* absent; a submit is rejected with the invalid-location error for as long
\* as the failure is on display and no coordinates have been supplied since.
C16_FailureLeavesNoCoordinates ==
    /\ [][(locationStatus' \in LocationFailureTexts /\ locationStatus' # locationStatus)
             => latitude' = Null /\ longitude' = Null]_vars
    /\ [][(handleSubmit /\ locationStatus \in LocationFailureTexts)
             => formError' = InvalidLocationError /\ subs' = subs]_vars

\* the fields of the form
formFields == << pollutionType, description, latitude, longitude, imageFile >>

\* C19 as claimed: no step taken while isSubmitting is true changes a field
\* of the form.
C19_FieldsFrozenWhileSubmitting ==
    [][isSubmitting => UNCHANGED formFields]_vars

(***************************************************************************)
(* Properties of the status message and of the map's data.                 *)
(***************************************************************************)
\* the texts the template colours as an error: those of the catch of
\* handleReportSubmit and the two fixed error texts of the page
IsErrorText(m) ==
    \/ m \in {NotReadyMessage, ConfigurationError}
    \/ m # NoText /\ Head(m) = "Error: "

\* C21 as claimed: with no submission being processed, a status message
\* left on display by the latest submission is the success message exactly
\* when that submission's insert succeeded, and an error message otherwise.
C21_OutcomeMessageLeft ==
    (subs # << >> /\ ~isProcessing /\ submissionMessage # NoText) =>
        IF subs[Len(subs)].insert = "ok"
        THEN submissionMessage = SuccessMessage
        ELSE IsErrorText(submissionMessage)

C26_LatestResponseHeld ==
    [][(fetches' = {} /\ Initialized /\ pagePc = "mounted" /\ reports' # reports)
          => \A f \in fetches : f.id = issued]_vars

\* C23 as claimed: a widget that was created and not removed is the one
\* mapInstance refers to, so at most one is live, and after the teardown
\* none is left.
C23_WidgetsReleased ==
    /\ widgets \subseteq {mapInstance}
    /\ Cardinality(widgets) <= 1
    /\ pagePc = "destroyed" => widgets = {}

\* the insert of an invocation is answered without error in this step, and
\* with it onSubmit completes
SubmitSucceeded ==
    \E i \in Invocations : subs[i].insert = "sent" /\ subs'[i].insert = "ok"

\* C24 as claimed: when onSubmit completes successfully, description,
\* coordinates and image are back at their initial values.
C24_FormResetAfterSuccess ==
    [][SubmitSucceeded =>
          /\ description' = << >>
          /\ latitude' = Null
          /\ longitude' = Null
          /\ imageFile' = NoFile]_vars

\* C25 as claimed: a timer that clears a displayed status message is the
\* timer of the submission that set it, the latest one.
C25_OwnTimerClears ==
    [][(timers # << >> /\ timers' = Tail(timers)
          /\ submissionMessage # NoText /\ submissionMessage' = NoText)
          => Head(timers) = Len(subs)]_vars

====
